---- MODULE Spec2Model ----
(***************************************************************************)
(* Model of the snapshot extraction scripts extract_snapshots.py and       *)
(* list_ebs_snapshots.py.                                                  *)
(*                                                                         *)
(* Python strings are sequences of character codes, so that the comparison *)
(* the sort uses (code point by code point, a proper prefix first) is      *)
(* computed and not assumed.  Python values are tagged records: t is one   *)
(* of "absent" (the key is not in the dict), "none", "str", "list",        *)
(* "datetime".  Time is counted in ticks, TicksPerSec ticks to the second: *)
(* a tick stands for the sub-second part a datetime carries and the        *)
(* created string drops.                                                   *)
(*                                                                         *)
(* Spec is a run of either program from its command line to its exit: the  *)
(* provider's answers (the region list, each page, each remote error) are  *)
(* chosen when the program asks for them.  SpecEnum is one enumerator      *)
(* iterating one response page, over a wider range of items.               *)
(***************************************************************************)
EXTENDS Integers, Sequences, FiniteSets, Bags, TLC

\* ------------------------------------------------------------------ bounds
\* Ticks to the second, seconds to the day (a scale), and the largest --days.
TicksPerSec == 2
SecsPerDay == 1
MaxDays == 1
\* Digits of the second count in a created string.
StampWidth == 2
\* Spec: pages fetched by one enumerator call before the paginator ends or
\* fails, records accumulated in one run, items in one page.
MaxPages == 1
MaxRows == 2
MaxRunItems == 1
\* SpecEnum: items in the page.
MaxItems == 2

\* ------------------------------------------------------------ Python values
Absent == [t |-> "absent"]
None == [t |-> "none"]
Str(s) == [t |-> "str", v |-> s]
List(s) == [t |-> "list", v |-> s]
\* An aware datetime (the provider's client parses every timestamp into one):
\* its wall-clock fields and its UTC offset, in ticks.
DT(wall, off) == [t |-> "datetime", wall |-> wall, off |-> off]

\* "<unnamed>"
Unnamed == <<60, 117, 110, 110, 97, 109, 101, 100, 62>>
\* "Name"
NameKey == <<78, 97, 109, 101>>
\* "\t" and "\n"
TAB == <<9>>
NL == <<10>>

\* dict.get(key): the value, or None when the key is absent.
Get(d, k) == IF d[k].t = "absent" THEN None ELSE d[k]

\* bool(v) for the values a provider response holds.
Truthy(v) ==
    CASE v.t = "str" -> v.v # <<>>
      [] v.t = "list" -> v.v # <<>>
      [] v.t = "datetime" -> TRUE
      [] OTHER -> FALSE

\* a or b
Or(a, b) == IF Truthy(a) THEN a ELSE b

\* str(v) of a value that is a str or None
PyStr(v) == IF v.t = "str" THEN v.v ELSE <<78, 111, 110, 101>>

\* v == s for a str literal s
StrIs(v, s) == v.t = "str" /\ v.v = s

\* isinstance(v, datetime)
IsDatetime(v) == v.t = "datetime"

\* ------------------------------------------------------------------- time
\* The instant an aware datetime denotes: aware datetimes compare by it.
Instant(d) == d.wall - d.off

\* now_utc - timedelta(days=days)
cutoff_of(now, days) == now - days * SecsPerDay * TicksPerSec

RECURSIVE Digits(_, _)
Digits(n, w) == IF w = 0 THEN <<>> ELSE Append(Digits(n \div 10, w - 1), 48 + (n % 10))

\* d.astimezone(timezone.utc).strftime("%Y-%m-%dT%H:%M:%SZ"): the UTC fields
\* of the instant down to the second, each of fixed width, most significant
\* first, then "Z".  The fields are rendered as one fixed-width numeral of the
\* second count.
format_created(d) == Append(Digits(Instant(d) \div TicksPerSec, StampWidth), 90)

\* ------------------------------------------------------------ name resolution
\* next((t.get("Value") for t in tags if t.get("Key") == "Name"), None)
RECURSIVE FirstNameTag(_)
FirstNameTag(tags) ==
    IF tags = <<>> THEN None
    ELSE IF StrIs(Get(Head(tags), "Key"), NameKey) THEN Get(Head(tags), "Value")
    ELSE FirstNameTag(Tail(tags))

\* snap.get("Tags", []) or []
tags_of(snap) ==
    LET g == IF snap.Tags.t = "absent" THEN List(<<>>) ELSE snap.Tags
    IN  IF Truthy(g) THEN g.v ELSE <<>>

\* Variant: the description looked up before the tag.
DescFirstName(snap) ==
    PyStr(Or(Or(Or(Get(snap, "Description"), FirstNameTag(tags_of(snap))),
                Get(snap, "SnapshotId")), Str(Unnamed)))
\* Variant: the chain without its last link.
NoPlaceholderName(snap) ==
    PyStr(Or(Or(FirstNameTag(tags_of(snap)), Get(snap, "Description")),
             Get(snap, "SnapshotId")))
\* extract_snapshots.get_ebs_snapshots:
\* str(name_tag or description or snapshot_id or "<unnamed>")
ebs_display_name(snap) ==
    PyStr(Or(Or(Or(FirstNameTag(tags_of(snap)), Get(snap, "Description")),
                Get(snap, "SnapshotId")), Str(Unnamed)))

\* list_ebs_snapshots.main: the same chain
list_display_name(snap) ==
    PyStr(Or(Or(Or(FirstNameTag(tags_of(snap)), Get(snap, "Description")),
                Get(snap, "SnapshotId")), Str(Unnamed)))

\* str(snap.get("DBSnapshotIdentifier") or "<unnamed>")
rds_instance_name(snap) == PyStr(Or(Get(snap, "DBSnapshotIdentifier"), Str(Unnamed)))

\* str(snap.get("DBClusterSnapshotIdentifier") or "<unnamed>")
rds_cluster_name(snap) == PyStr(Or(Get(snap, "DBClusterSnapshotIdentifier"), Str(Unnamed)))

\* ------------------------------------------------------------- enumerators
\* page.get(<list key>, [])
page_items(page) == IF page.t = "absent" THEN <<>> ELSE page.v

Skip == [o |-> "skip"]
Raise == [o |-> "raise"]
Yield(name, created) == [o |-> "yield", rec |-> [name |-> name, created |-> created]]

\* start_time <= cutoff_dt: defined between datetimes, a TypeError otherwise.
\* cutoff_dt is the UTC instant of the cutoff.
CanCompare(v) == v.t = "datetime"

\* Variant: the cutoff exclusive.
EbsStrictBody(snap, cutoff) ==
    LET start_time == Get(snap, "StartTime")
    IN  IF ~IsDatetime(start_time) THEN Skip
        ELSE IF Instant(start_time) < cutoff
             THEN Yield(ebs_display_name(snap), format_created(start_time))
             ELSE Skip
\* Variant: no isinstance test before the comparison.
EbsUncheckedBody(snap, cutoff) ==
    LET start_time == Get(snap, "StartTime")
    IN  IF ~CanCompare(start_time) THEN Raise
        ELSE IF Instant(start_time) <= cutoff
             THEN Yield(ebs_display_name(snap), format_created(start_time))
             ELSE Skip
\* get_ebs_snapshots: the body of the loop over page.get("Snapshots", [])
ebs_body(snap, cutoff) ==
    LET start_time == Get(snap, "StartTime")
    IN  IF ~IsDatetime(start_time) THEN Skip
        ELSE IF ~CanCompare(start_time) THEN Raise
        ELSE IF Instant(start_time) <= cutoff
             THEN Yield(ebs_display_name(snap), format_created(start_time))
             ELSE Skip

\* get_rds_instance_snapshots: the body of the loop over DBSnapshots
rds_instance_body(snap, cutoff) ==
    LET created == Get(snap, "SnapshotCreateTime")
    IN  IF ~IsDatetime(created) THEN Skip
        ELSE IF ~CanCompare(created) THEN Raise
        ELSE IF Instant(created) <= cutoff
             THEN Yield(rds_instance_name(snap), format_created(created))
             ELSE Skip

\* get_rds_cluster_snapshots: the body of the loop over DBClusterSnapshots
rds_cluster_body(snap, cutoff) ==
    LET created == Get(snap, "SnapshotCreateTime")
    IN  IF ~IsDatetime(created) THEN Skip
        ELSE IF ~CanCompare(created) THEN Raise
        ELSE IF Instant(created) <= cutoff
             THEN Yield(rds_cluster_name(snap), format_created(created))
             ELSE Skip

\* list_ebs_snapshots.main: the body of the loop over Snapshots (no cutoff)
list_body(snap, cutoff) ==
    LET start_time == Get(snap, "StartTime")
    IN  IF ~IsDatetime(start_time) THEN Skip
        ELSE Yield(list_display_name(snap), format_created(start_time))

\* The loop body of the enumerator of one kind.
item_outcome(k, snap, cutoff) ==
    CASE k = "ebs" -> ebs_body(snap, cutoff)
      [] k = "rds_instance" -> rds_instance_body(snap, cutoff)
      [] k = "rds_cluster" -> rds_cluster_body(snap, cutoff)
      [] k = "list_ebs" -> list_body(snap, cutoff)

\* What the generator yields for one item.
item_records(k, snap, cutoff) ==
    LET r == item_outcome(k, snap, cutoff)
    IN  IF r.o = "yield" THEN <<r.rec>> ELSE <<>>

\* The inner for loop over the items of one page: the records it yields.
RECURSIVE enum_items(_, _, _)
enum_items(k, items, cutoff) ==
    IF items = <<>> THEN <<>>
    ELSE item_records(k, Head(items), cutoff) \o enum_items(k, Tail(items), cutoff)

enum_page(k, page, cutoff) == enum_items(k, page_items(page), cutoff)

\* ---------------------------------------------------------------- reporter
\* a < b for two str: code point by code point, a proper prefix first.
RECURSIVE StrLess(_, _)
StrLess(a, b) ==
    IF b = <<>> THEN FALSE
    ELSE IF a = <<>> THEN TRUE
    ELSE IF Head(a) # Head(b) THEN Head(a) < Head(b)
    ELSE StrLess(Tail(a), Tail(b))

\* Variant: the key without the name.
CreatedOnlyLess(r1, r2) == StrLess(r1.created, r2.created)
\* (r1["created"], r1["name"]) < (r2["created"], r2["name"])
key_less(r1, r2) ==
    IF r1.created # r2.created THEN StrLess(r1.created, r2.created)
    ELSE StrLess(r1.name, r2.name)

\* r put into a sorted list behind every element that is not greater: what a
\* stable sort does with the next element.
RECURSIVE InsertRow(_, _)
InsertRow(sorted, r) ==
    IF sorted = <<>> THEN <<r>>
    ELSE IF key_less(r, Head(sorted)) THEN <<r>> \o sorted
    ELSE <<Head(sorted)>> \o InsertRow(Tail(sorted), r)

RECURSIVE SortFrom(_, _)
SortFrom(sorted, rest) ==
    IF rest = <<>> THEN sorted ELSE SortFrom(InsertRow(sorted, Head(rest)), Tail(rest))

\* rows.sort(key=lambda r: (r["created"], r["name"])): list.sort is stable.
sort_rows(rs) == SortFrom(<<>>, rs)

\* f"{r['name']}\t{r['created']}\n"
line_of(r) == r.name \o TAB \o r.created \o NL

RECURSIVE lines_of(_)
lines_of(rs) == IF rs = <<>> THEN <<>> ELSE <<line_of(Head(rs))>> \o lines_of(Tail(rs))

\* ------------------------------------------------------------------- state
VARIABLES
    script,         \* which program runs: "extract", "list", or "enum" (one enumerator alone)
    args,           \* the parsed command line
    session_region, \* session.region_name: the profile's default region, or None
    now_utc,        \* datetime.now(timezone.utc), in ticks
    cutoff_dt,      \* the cutoff instant, in ticks
    pc,             \* where main is
    listing,        \* the describe_regions call: "none" (not made), "ok" or "failed"
    regions,        \* the resolved regions
    ri,             \* index of the region the loop is at
    ki,             \* index of the kind the loop is at, in kinds_of(args.service)
    page_no,        \* pages the running enumerator call has fetched
    rows,           \* the accumulated records
    calls,          \* one entry per enumerator call made, in call order
    console,        \* what was printed
    file,           \* the output file: [exists, lines]
    exit_msg,       \* the SystemExit message when pc = "exit"
    page,           \* "enum": the response page being iterated
    idx,            \* "enum": index of the next item
    emitted         \* "enum": the outcome of each item iterated, in order

vars == <<script, args, session_region, now_utc, cutoff_dt, pc, listing, regions, ri, ki,
          page_no, rows, calls, console, file, exit_msg, page, idx, emitted>>

\* ------------------------------------------------------------------ inputs
\* region names "a", "b", "c"
RegA == <<97>>
RegB == <<98>>
RegC == <<99>>
\* "sa-east-1", the default of list_ebs_snapshots --region, shortened to "s"
RegDefault == <<115>>

\* names "a", "b", "ab"
NmA == <<97>>
NmB == <<98>>
NmAB == <<97, 98>>

Nows == {2 * SecsPerDay * TicksPerSec}
Days == 1 .. MaxDays

Tag(k, v) == [Key |-> Str(k), Value |-> v]
Ebs(st, tags, desc, id) ==
    [StartTime |-> st, Tags |-> tags, Description |-> desc, SnapshotId |-> id]
RdsInstance(ct, id) == [SnapshotCreateTime |-> ct, DBSnapshotIdentifier |-> id]
RdsCluster(ct, id) == [SnapshotCreateTime |-> ct, DBClusterSnapshotIdentifier |-> id]

\* Items of the whole-program runs, placed around the earliest cutoff:
\* T0 is at it, TOld a second before it, TNew a tick after it.
T0 == 1 * SecsPerDay * TicksPerSec
TOld == T0 - TicksPerSec
TNew == T0 + 1

RunItems(k) ==
    CASE k \in {"ebs", "list_ebs"} ->
           { Ebs(DT(T0, 0), List(<<Tag(NameKey, Str(NmB))>>), Str(NmA), Str(NmAB)),
             Ebs(DT(T0 + TicksPerSec, TicksPerSec), Absent, Str(NmA), Str(NmAB)),
             Ebs(DT(TNew, 0), Absent, Str(<<>>), Str(NmAB)),
             Ebs(Absent, Absent, Absent, Str(NmA)) }
      [] k = "rds_instance" ->
           { RdsInstance(DT(T0, 0), Str(NmA)),
             RdsInstance(DT(TOld, 0), Absent) }
      [] k = "rds_cluster" ->
           { RdsCluster(DT(T0, 0), Str(NmB)),
             RdsCluster(None, Str(NmA)) }

SeqsUpTo(S, n) == UNION { [1 .. m -> S] : m \in 0 .. n }

\* The pages a provider may answer one fetch with.
RunPages(k) == { List(items) : items \in SeqsUpTo(RunItems(k), MaxRunItems) } \cup {Absent}

Region(name, status) == [RegionName |-> name, OptInStatus |-> status]
OptInNotRequired == "opt-in-not-required"
OptedIn == "opted-in"
NotOptedIn == "not-opted-in"

\* Answers of describe_regions: resp.get("Regions", []), or the remote error.
RegionResponses ==
    { [err |-> TRUE, Regions |-> Absent],
      [err |-> FALSE, Regions |-> Absent],
      [err |-> FALSE, Regions |-> List(<<Region(Str(RegB), Str(OptedIn)),
                                         Region(Str(RegA), Absent),
                                         Region(Str(RegC), Str(NotOptedIn)),
                                         Region(Str(RegB), Str(OptInNotRequired)),
                                         Region(Absent, Str(OptedIn))>>)],
      [err |-> FALSE, Regions |-> List(<<Region(Str(RegC), Str(OptInNotRequired))>>)] }

NoFile == [exists |-> FALSE, lines |-> <<>>]
OldFile == [exists |-> TRUE, lines |-> <<<<111, 108, 100, 10>>>>]

\* ----------------------------------------------------------- region resolver
\* [name for r in Regions if name and status in (None, "opt-in-not-required", "opted-in")]
RECURSIVE opted_in_names(_)
opted_in_names(rs) ==
    IF rs = <<>> THEN <<>>
    ELSE LET name == Get(Head(rs), "RegionName")
             status == Get(Head(rs), "OptInStatus")
             keep == /\ Truthy(name)
                     /\ \/ status.t = "none"
                        \/ StrIs(status, OptInNotRequired)
                        \/ StrIs(status, OptedIn)
         IN  (IF keep THEN <<name.v>> ELSE <<>>) \o opted_in_names(Tail(rs))

SeqToSet(q) == { q[i] : i \in 1 .. Len(q) }

\* sorted(S) of a set of str
RECURSIVE sorted_set(_)
sorted_set(S) ==
    IF S = {} THEN <<>>
    ELSE LET least == CHOOSE x \in S : \A y \in S \ {x} : StrLess(x, y)
         IN  <<least>> \o sorted_set(S \ {least})

\* list_opted_in_regions, given the answer of describe_regions
list_opted_in_regions(resp) == sorted_set(SeqToSet(opted_in_names(page_items(resp.Regions))))

\* ------------------------------------------------------------- aggregator
\* Variant: the database enumerators called first.
RdsFirstKinds(service) ==
    (IF service \in {"rds", "both"} THEN <<"rds_instance", "rds_cluster">> ELSE <<>>)
    \o (IF service \in {"ebs", "both"} THEN <<"ebs">> ELSE <<>>)
\* The enumerators main calls for one region, in the order of its statements:
\* include_ebs, then include_rds (instance, then cluster).
kinds_of(service) ==
    (IF service \in {"ebs", "both"} THEN <<"ebs">> ELSE <<>>)
    \o (IF service \in {"rds", "both"} THEN <<"rds_instance", "rds_cluster">> ELSE <<>>)

Call(k, region) == [kind |-> k, region |-> region, yielded |-> <<>>, outcome |-> "running"]

\* The loop arrives at region r, kind k (and calls the enumerator), or is over.
Arrive(regs, kinds, r, k, cs) ==
    /\ ri' = r
    /\ ki' = k
    /\ page_no' = 0
    /\ IF r > Len(regs)
       THEN pc' = "sort" /\ calls' = cs
       ELSE pc' = "enumerate" /\ calls' = Append(cs, Call(kinds[k], regs[r]))

\* The loop leaves the call it is in for the next (region, kind) pair.
Leave(cs) ==
    LET kinds == kinds_of(args.service)
    IN  IF ki < Len(kinds)
        THEN Arrive(regions, kinds, ri, ki + 1, cs)
        ELSE Arrive(regions, kinds, ri + 1, 1, cs)

Finished(cs, how) == [cs EXCEPT ![Len(cs)].outcome = how]

Warning(k, region) == [msg |-> "Warning: Failed to list", kind |-> k, region |-> region]
Wrote(n) == [msg |-> "Wrote", n |-> n]
Printed(line) == [msg |-> "line", line |-> line]

\* ------------------------------------------------------ extract_snapshots.main
Exit(msg) == pc' = "exit" /\ exit_msg' = msg

BuildSession ==
    /\ script = "extract"
    /\ pc = "start"
    /\ \/ /\ Exit("Failed to create AWS session")
          /\ UNCHANGED cutoff_dt
       \/ /\ pc' = "resolve"
          /\ cutoff_dt' = cutoff_of(now_utc, args.days)
          /\ UNCHANGED exit_msg
    /\ UNCHANGED <<listing, script, args, session_region, now_utc, regions, ri, ki, page_no,
                   rows, calls, console, file, page, idx, emitted>>

\* Variant: a failed listing taken for an empty one.
ListingFailureIgnored ==
    /\ script = "extract"
    /\ pc = "resolve"
    /\ args.all_regions
    /\ \E resp \in RegionResponses :
         IF resp.err
         THEN /\ listing' = "failed"
              /\ regions' = <<>>
              /\ Arrive(regions', kinds_of(args.service), 1, 1, calls)
              /\ UNCHANGED exit_msg
         ELSE /\ listing' = "ok"
              /\ regions' = list_opted_in_regions(resp)
              /\ Arrive(regions', kinds_of(args.service), 1, 1, calls)
              /\ UNCHANGED exit_msg
    /\ UNCHANGED <<script, args, session_region, now_utc, cutoff_dt, rows, console,
                   file, page, idx, emitted>>
\* if args.all_regions: regions = list_opted_in_regions(session); its
\* RuntimeError becomes SystemExit.
ResolveAllRegions ==
    /\ script = "extract"
    /\ pc = "resolve"
    /\ args.all_regions
    /\ \E resp \in RegionResponses :
         IF resp.err
         THEN /\ listing' = "failed"
              /\ Exit("Failed to list regions")
              /\ UNCHANGED <<regions, ri, ki, page_no, calls>>
         ELSE /\ listing' = "ok"
              /\ regions' = list_opted_in_regions(resp)
              /\ Arrive(regions', kinds_of(args.service), 1, 1, calls)
              /\ UNCHANGED exit_msg
    /\ UNCHANGED <<script, args, session_region, now_utc, cutoff_dt, rows, console,
                   file, page, idx, emitted>>

\* Variant: the profile's region preferred to --region.
DefaultFirstResolve ==
    /\ script = "extract"
    /\ pc = "resolve"
    /\ ~args.all_regions
    /\ LET region == Or(session_region, args.region)
       IN  IF ~Truthy(region)
           THEN /\ Exit("No region specified and no default region configured")
                /\ UNCHANGED <<regions, ri, ki, page_no, calls>>
           ELSE /\ regions' = <<region.v>>
                /\ Arrive(regions', kinds_of(args.service), 1, 1, calls)
                /\ UNCHANGED exit_msg
    /\ UNCHANGED <<listing, script, args, session_region, now_utc, cutoff_dt, rows, console,
                   file, page, idx, emitted>>
\* else: region = args.region or session.region_name
ResolveRegion ==
    /\ script = "extract"
    /\ pc = "resolve"
    /\ ~args.all_regions
    /\ LET region == Or(args.region, session_region)
       IN  IF ~Truthy(region)
           THEN /\ Exit("No region specified and no default region configured")
                /\ UNCHANGED <<regions, ri, ki, page_no, calls>>
           ELSE /\ regions' = <<region.v>>
                /\ Arrive(regions', kinds_of(args.service), 1, 1, calls)
                /\ UNCHANGED exit_msg
    /\ UNCHANGED <<listing, script, args, session_region, now_utc, cutoff_dt, rows, console,
                   file, page, idx, emitted>>

\* rows.extend(<enumerator>): the generator fetches one more page and yields its
\* records; extend appends each as it is yielded.
FetchPage ==
    /\ script = "extract"
    /\ pc = "enumerate"
    /\ page_no < MaxPages
    /\ \E p \in RunPages(calls[Len(calls)].kind) :
         LET recs == enum_page(calls[Len(calls)].kind, p, cutoff_dt)
         IN  /\ Len(rows) + Len(recs) <= MaxRows
             /\ rows' = rows \o recs
             /\ calls' = [calls EXCEPT ![Len(calls)].yielded = @ \o recs]
    /\ page_no' = page_no + 1
    /\ UNCHANGED <<listing, script, args, session_region, now_utc, cutoff_dt, pc, regions, ri,
                   ki, console, file, exit_msg, page, idx, emitted>>

\* The paginator is exhausted: extend returns, the loop goes on.
EndCall ==
    /\ script = "extract"
    /\ pc = "enumerate"
    /\ Leave(Finished(calls, "ok"))
    /\ UNCHANGED <<listing, script, args, session_region, now_utc, cutoff_dt, regions, rows,
                   console, file, exit_msg, page, idx, emitted>>

\* Variant: the remote error ends the run, as in list_ebs_snapshots.
AbortOnFail ==
    /\ script = "extract"
    /\ pc = "enumerate"
    /\ Exit("Failed to list snapshots")
    /\ calls' = Finished(calls, "failed")
    /\ UNCHANGED <<listing, script, args, session_region, now_utc, cutoff_dt, regions, ri, ki,
                   page_no, rows, console, file, page, idx, emitted>>
\* Variant: the records of the failed call taken back.
RollbackOnFail ==
    /\ script = "extract"
    /\ pc = "enumerate"
    /\ rows' = SubSeq(rows, 1, Len(rows) - Len(calls[Len(calls)].yielded))
    /\ console' = Append(console, Warning(calls[Len(calls)].kind, calls[Len(calls)].region))
    /\ Leave(Finished(calls, "failed"))
    /\ UNCHANGED <<listing, script, args, session_region, now_utc, cutoff_dt, regions,
                   file, exit_msg, page, idx, emitted>>
\* Creating the client or fetching a page raises BotoCoreError or ClientError:
\* except (BotoCoreError, ClientError) prints the warning, the loop goes on.
FailCall ==
    /\ script = "extract"
    /\ pc = "enumerate"
    /\ console' = Append(console, Warning(calls[Len(calls)].kind, calls[Len(calls)].region))
    /\ Leave(Finished(calls, "failed"))
    /\ UNCHANGED <<listing, script, args, session_region, now_utc, cutoff_dt, regions, rows,
                   file, exit_msg, page, idx, emitted>>

\* rows.sort(key=lambda r: (r["created"], r["name"]))
SortRows ==
    /\ script = "extract"
    /\ pc = "sort"
    /\ rows' = sort_rows(rows)
    /\ pc' = "write"
    /\ UNCHANGED <<listing, script, args, session_region, now_utc, cutoff_dt, regions, ri, ki,
                   page_no, calls, console, file, exit_msg, page, idx, emitted>>

\* open(args.output, "w") and one f.write per row; OSError at open leaves the
\* file as it was, OSError later leaves it truncated with the rows written so far.
WriteFile ==
    /\ script = "extract"
    /\ pc = "write"
    /\ \/ /\ file' = [exists |-> TRUE, lines |-> lines_of(rows)]
          /\ console' = Append(console, Wrote(Len(rows)))
          /\ pc' = "done"
          /\ UNCHANGED exit_msg
       \/ /\ Exit("Failed to write output file")
          /\ UNCHANGED <<file, console>>
       \/ /\ Exit("Failed to write output file")
          /\ \E n \in 0 .. Len(rows) :
               file' = [exists |-> TRUE, lines |-> lines_of(SubSeq(rows, 1, n))]
          /\ UNCHANGED console
    /\ UNCHANGED <<listing, script, args, session_region, now_utc, cutoff_dt, regions, ri, ki,
                   page_no, rows, calls, page, idx, emitted>>

\* ------------------------------------------------------ list_ebs_snapshots.main
ListBuildSession ==
    /\ script = "list"
    /\ pc = "start"
    /\ \/ /\ Exit("Failed to create AWS session")
          /\ UNCHANGED calls
       \/ /\ pc' = "enumerate"
          /\ calls' = <<Call("list_ebs", args.region.v)>>
          /\ UNCHANGED exit_msg
    /\ UNCHANGED <<listing, script, args, session_region, now_utc, cutoff_dt, regions, ri, ki,
                   page_no, rows, console, file, page, idx, emitted>>

\* for page in paginator.paginate(OwnerIds=["self"]): one more page, its rows appended
ListFetchPage ==
    /\ script = "list"
    /\ pc = "enumerate"
    /\ page_no < MaxPages
    /\ \E p \in RunPages("list_ebs") :
         LET recs == enum_page("list_ebs", p, cutoff_dt)
         IN  /\ Len(rows) + Len(recs) <= MaxRows
             /\ rows' = rows \o recs
             /\ calls' = [calls EXCEPT ![Len(calls)].yielded = @ \o recs]
    /\ page_no' = page_no + 1
    /\ UNCHANGED <<listing, script, args, session_region, now_utc, cutoff_dt, pc, regions, ri,
                   ki, console, file, exit_msg, page, idx, emitted>>

\* The paginator is exhausted.
ListEnd ==
    /\ script = "list"
    /\ pc = "enumerate"
    /\ pc' = "sort"
    /\ calls' = Finished(calls, "ok")
    /\ UNCHANGED <<listing, script, args, session_region, now_utc, cutoff_dt, regions, ri, ki,
                   page_no, rows, console, file, exit_msg, page, idx, emitted>>

\* except (BotoCoreError, ClientError): raise SystemExit
ListFail ==
    /\ script = "list"
    /\ pc = "enumerate"
    /\ Exit("Failed to list EBS snapshots")
    /\ calls' = Finished(calls, "failed")
    /\ UNCHANGED <<listing, script, args, session_region, now_utc, cutoff_dt, regions, ri, ki,
                   page_no, rows, console, file, page, idx, emitted>>

RECURSIVE printed_lines(_)
printed_lines(rs) ==
    IF rs = <<>> THEN <<>> ELSE <<Printed(line_of(Head(rs)))>> \o printed_lines(Tail(rs))

\* rows.sort(key=lambda r: (r[1], r[0])), then one print per row
ListSortPrint ==
    /\ script = "list"
    /\ pc = "sort"
    /\ rows' = sort_rows(rows)
    /\ console' = console \o printed_lines(rows')
    /\ pc' = IF Truthy(args.output) THEN "write" ELSE "done"
    /\ UNCHANGED <<listing, script, args, session_region, now_utc, cutoff_dt, regions, ri, ki,
                   page_no, calls, file, exit_msg, page, idx, emitted>>

\* if args.output: the rows written as in extract_snapshots
ListWrite ==
    /\ script = "list"
    /\ pc = "write"
    /\ \/ /\ file' = [exists |-> TRUE, lines |-> lines_of(rows)]
          /\ console' = Append(console, Wrote(Len(rows)))
          /\ pc' = "done"
          /\ UNCHANGED exit_msg
       \/ /\ Exit("Failed to write output file")
          /\ UNCHANGED <<file, console>>
       \/ /\ Exit("Failed to write output file")
          /\ \E n \in 0 .. Len(rows) :
               file' = [exists |-> TRUE, lines |-> lines_of(SubSeq(rows, 1, n))]
          /\ UNCHANGED console
    /\ UNCHANGED <<listing, script, args, session_region, now_utc, cutoff_dt, regions, ri, ki,
                   page_no, rows, calls, page, idx, emitted>>

\* ----------------------------------------------------- the whole programs
OutPath == Str(<<111>>)

ExtractArgs ==
    [region : {None, Str(RegB)}, all_regions : BOOLEAN, service : {"ebs", "rds", "both"},
     days : Days, output : {OutPath}]

ListArgs == [region : {Str(RegDefault), Str(RegB)}, output : {None, OutPath}]

Init ==
    /\ script \in {"extract", "list"}
    /\ IF script = "extract"
       THEN /\ args \in ExtractArgs
            /\ session_region \in (IF args.all_regions THEN {Str(RegA)} ELSE {None, Str(RegA)})
            /\ now_utc \in Nows
       ELSE /\ args \in ListArgs
            /\ session_region = None
            /\ now_utc = 0
    /\ file \in {NoFile, OldFile}
    /\ cutoff_dt = 0
    /\ pc = "start"
    /\ listing = "none"
    /\ regions = <<>>
    /\ ri = 0
    /\ ki = 0
    /\ page_no = 0
    /\ rows = <<>>
    /\ calls = <<>>
    /\ console = <<>>
    /\ exit_msg = ""
    /\ page = Absent
    /\ idx = 0
    /\ emitted = <<>>

Next ==
    \/ BuildSession
    \/ ResolveAllRegions
    \/ ResolveRegion
    \/ FetchPage
    \/ EndCall
    \/ FailCall
    \/ SortRows
    \/ WriteFile
    \/ ListBuildSession
    \/ ListFetchPage
    \/ ListEnd
    \/ ListFail
    \/ ListSortPrint
    \/ ListWrite

Spec == Init /\ [][Next]_vars

\* ------------------------------------------------- one enumerator on one page
Env == <<69, 110, 118>>

Malformed == {Absent, None, Str(<<50, 48>>)}

\* Datetimes around the cutoffs T0 (a whole second) and T0 + 1: UTC ones, and
\* ones whose offset puts the wall clock on the other side of the cutoff.
Datetimes ==
    { DT(i, 0) : i \in (T0 - 1) .. (T0 + TicksPerSec) }
    \cup { DT(T0 + TicksPerSec, TicksPerSec), DT(T0, 0 - TicksPerSec),
           DT(T0 + 1 + TicksPerSec, TicksPerSec) }

Times == Malformed \cup Datetimes
EnumCutoffs == {T0, T0 + 1}

TagForms ==
    { Absent, None, List(<<>>),
      List(<<Tag(NameKey, Str(NmA))>>),
      List(<<Tag(NameKey, Str(<<>>))>>),
      List(<<Tag(Env, Str(NmA)), Tag(NameKey, Str(NmB))>>),
      List(<<Tag(Env, Str(NmA))>>),
      List(<<[Key |-> Str(NameKey), Value |-> Absent]>>) }
DescForms == {Absent, None, Str(<<>>), Str(NmAB)}
IdForms == {Absent, None, Str(<<>>), Str(<<115>>)}

\* Items that vary the creation time, and items that vary the name fields.
TimeItems(k) ==
    CASE k \in {"ebs", "list_ebs"} ->
           { Ebs(t, Absent, Str(<<>>), Str(<<115>>)) : t \in Times }
      [] k = "rds_instance" -> { RdsInstance(t, Str(<<115>>)) : t \in Times }
      [] k = "rds_cluster" -> { RdsCluster(t, Str(<<115>>)) : t \in Times }

NameItems(k) ==
    CASE k \in {"ebs", "list_ebs"} ->
           { Ebs(DT(T0, 0), tg, d, i) : tg \in TagForms, d \in DescForms,
                                        i \in {Absent, Str(<<>>), Str(<<115>>)} }
      [] k = "rds_instance" -> { RdsInstance(DT(T0, 0), i) : i \in IdForms }
      [] k = "rds_cluster" -> { RdsCluster(DT(T0, 0), i) : i \in IdForms }

EnumPages(k) ==
    { List(items) : items \in SeqsUpTo(TimeItems(k), MaxItems) }
    \cup { List(<<it>>) : it \in NameItems(k) }
    \cup { List(<<it, it>>) : it \in NameItems(k) }
    \cup {Absent}

EnumKinds == {"ebs", "rds_instance", "rds_cluster", "list_ebs"}

InitEnum ==
    /\ script = "enum"
    /\ \E k \in EnumKinds :
         /\ calls = <<Call(k, RegA)>>
         /\ page \in EnumPages(k)
    /\ cutoff_dt \in EnumCutoffs
    /\ pc = "enumerate"
    /\ idx = 1
    /\ emitted = <<>>
    /\ rows = <<>>
    /\ args = None
    /\ session_region = None
    /\ now_utc = 0
    /\ listing = "none"
    /\ regions = <<>>
    /\ ri = 0
    /\ ki = 0
    /\ page_no = 0
    /\ console = <<>>
    /\ file = NoFile
    /\ exit_msg = ""

\* One turn of the loop over the items of the page.
EnumStep ==
    /\ script = "enum"
    /\ pc = "enumerate"
    /\ idx <= Len(page_items(page))
    /\ LET k == calls[1].kind
           r == item_outcome(k, page_items(page)[idx], cutoff_dt)
       IN  /\ emitted' = Append(emitted, r)
           /\ rows' = rows \o item_records(k, page_items(page)[idx], cutoff_dt)
           /\ calls' = [calls EXCEPT ![1].yielded =
                            @ \o item_records(k, page_items(page)[idx], cutoff_dt)]
           /\ pc' = IF r.o = "raise" THEN "raised" ELSE pc
    /\ idx' = idx + 1
    /\ UNCHANGED <<listing, script, args, session_region, now_utc, cutoff_dt, regions, ri, ki,
                   page_no, console, file, exit_msg, page>>

\* The loop over the items is over.
EnumEnd ==
    /\ script = "enum"
    /\ pc = "enumerate"
    /\ idx > Len(page_items(page))
    /\ pc' = "done"
    /\ calls' = Finished(calls, "ok")
    /\ UNCHANGED <<listing, script, args, session_region, now_utc, cutoff_dt, regions, ri, ki,
                   page_no, rows, console, file, exit_msg, page, idx, emitted>>

NextEnum ==
    \/ EnumStep
    \/ EnumEnd

SpecEnum == InitEnum /\ [][NextEnum]_vars

\* =================================================================== claims
\* ------------------------------------------------------ what the claims use
RECURSIVE Concat(_)
Concat(qs) == IF qs = <<>> THEN <<>> ELSE Head(qs) \o Concat(Tail(qs))

\* Every record the enumerator calls yielded, in the order yielded.
Aggregated == Concat([i \in 1 .. Len(calls) |-> calls[i].yielded])

BagOf(q) == [x \in SeqToSet(q) |-> Cardinality({ i \in 1 .. Len(q) : q[i] = x })]

FailedCalls == { i \in 1 .. Len(calls) : calls[i].outcome = "failed" }

\* The loop over the regions is over.
FanOutOver == script = "extract" /\ (pc \in {"sort", "write", "done"} \/ (pc = "exit" /\ ri > 0))

\* The (kind, region) pairs requested, in the order of spec section 5: regions
\* as resolved, and per region block storage, database instance, database cluster.
RequestedKinds ==
    SelectSeq(<<"ebs", "rds_instance", "rds_cluster">>,
              LAMBDA k : \/ k = "ebs" /\ args.service \in {"ebs", "both"}
                         \/ k # "ebs" /\ args.service \in {"rds", "both"})

ExpectedPairs ==
    [n \in 1 .. (Len(regions) * Len(RequestedKinds)) |->
        [region |-> regions[((n - 1) \div Len(RequestedKinds)) + 1],
         kind |-> RequestedKinds[((n - 1) % Len(RequestedKinds)) + 1]]]

PairsCalled == [i \in 1 .. Len(calls) |-> [region |-> calls[i].region, kind |-> calls[i].kind]]

\* created ascending, ties by name ascending
InOrder(r1, r2) ==
    \/ StrLess(r1.created, r2.created)
    \/ r1.created = r2.created /\ (r1.name = r2.name \/ StrLess(r1.name, r2.name))

Orderings(n) == { f \in [1 .. n -> 1 .. n] : \A i, j \in 1 .. n : f[i] = f[j] => i = j }

\* The bytes of a file holding the given lines.
Bytes(lines) == Concat(lines)

\* The text the reporter must produce for an aggregated sequence q.
Report(q) == Bytes(lines_of(sort_rows(q)))

\* The file was written in this run.
FileWritten == pc = "done" /\ (script = "extract" \/ (script = "list" /\ Truthy(args.output)))

\* The creation-time field of an item of kind k.
created_field(k, snap) ==
    IF k \in {"ebs", "list_ebs"} THEN Get(snap, "StartTime") ELSE Get(snap, "SnapshotCreateTime")

EnumKind == calls[1].kind
EnumItemsIn == page_items(page)

\* ------------------------------------------------------------------- C1
\* C1: a failed enumerator call never ends the run: every requested pair is
\* still called, the run can only exit through a failure to write the file,
\* and once it is done the file exists and holds every record the other calls
\* yielded.
C1_FailureIsolated ==
    (script = "extract" /\ FailedCalls # {}) =>
        /\ pc = "exit" => exit_msg = "Failed to write output file"
        /\ FanOutOver => PairsCalled = ExpectedPairs
        /\ pc = "done" =>
             /\ file.exists
             /\ \A i \in 1 .. Len(calls) : \A j \in 1 .. Len(calls[i].yielded) :
                   \E n \in 1 .. Len(file.lines) : file.lines[n] = line_of(calls[i].yielded[j])
             /\ Len(file.lines) = Len(Aggregated)

C1_Witness ==
    /\ script = "extract"
    /\ pc = "done"
    /\ \E i \in FailedCalls :
         /\ i < Len(calls)
         /\ \E j \in (i + 1) .. Len(calls) :
              /\ calls[j].region # calls[i].region
              /\ calls[j].yielded # <<>>
              /\ \E n \in 1 .. Len(file.lines) : file.lines[n] = line_of(calls[j].yielded[1])

\* ------------------------------------------------------------------- C2
\* C2: in each of the three enumerators an item with a datetime creation time
\* yields a record exactly when its instant is at or before the cutoff.
C2_CutoffInclusive ==
    (script = "enum" /\ EnumKind \in {"ebs", "rds_instance", "rds_cluster"}) =>
        /\ \A i \in 1 .. Len(emitted) :
             LET t == created_field(EnumKind, EnumItemsIn[i])
             IN  IsDatetime(t) => ((emitted[i].o = "yield") <=> (Instant(t) <= cutoff_dt))
        /\ Len(rows) = Cardinality({ i \in 1 .. Len(emitted) : emitted[i].o = "yield" })

C2_Witness ==
    /\ script = "enum"
    /\ pc = "done"
    /\ EnumKind = "rds_cluster"
    /\ Len(emitted) = 2
    /\ IsDatetime(created_field(EnumKind, EnumItemsIn[1]))
    /\ Instant(created_field(EnumKind, EnumItemsIn[1])) = cutoff_dt
    /\ emitted[1].o = "yield"
    /\ IsDatetime(created_field(EnumKind, EnumItemsIn[2]))
    /\ Instant(created_field(EnumKind, EnumItemsIn[2])) = cutoff_dt + 1
    /\ emitted[2].o = "skip"
    /\ Len(rows) = 1

\* ------------------------------------------------------------------- C3
\* The value of the tag "Name" when it is a non-empty string, else <<>>.
NameTagOf(snap) ==
    LET tags == IF snap.Tags.t = "list" THEN snap.Tags.v ELSE <<>>
        hits == { i \in 1 .. Len(tags) :
                    /\ tags[i].Key = Str(NameKey)
                    /\ tags[i].Value.t = "str"
                    /\ tags[i].Value.v # <<>> }
    IN  IF hits = {} THEN <<>> ELSE tags[CHOOSE i \in hits : TRUE].Value.v

TextOf(v) == IF v.t = "str" THEN v.v ELSE <<>>

\* C3: the name of a storage-volume record is the tag "Name" if the snapshot
\* has one, else its description if it has one, else its identifier if it has
\* one, else "<unnamed>" (in both scripts).
C3_NamePrecedence ==
    (script = "enum" /\ EnumKind \in {"ebs", "list_ebs"}) =>
        \A i \in 1 .. Len(emitted) :
            emitted[i].o = "yield" =>
                LET snap == EnumItemsIn[i]
                    tag == NameTagOf(snap)
                    desc == TextOf(snap.Description)
                    id == TextOf(snap.SnapshotId)
                IN  emitted[i].rec.name =
                        IF tag # <<>> THEN tag
                        ELSE IF desc # <<>> THEN desc
                        ELSE IF id # <<>> THEN id
                        ELSE Unnamed

C3_Witness ==
    /\ script = "enum"
    /\ EnumKind = "ebs"
    /\ Len(emitted) = 1
    /\ emitted[1].o = "yield"
    /\ NameTagOf(EnumItemsIn[1]) = NmB
    /\ TextOf(EnumItemsIn[1].Description) = NmAB
    /\ TextOf(EnumItemsIn[1].SnapshotId) # <<>>
    /\ emitted[1].rec.name = NmB

\* ------------------------------------------------------------------- C4
\* C4: the file written (and what list_ebs_snapshots prints) is the
\* aggregated records in ascending order of created, then name, one line per
\* record, and it is the same text for every order of the aggregated records.
C4_SortedDeterministic ==
    /\ FileWritten =>
         /\ Len(file.lines) = Len(Aggregated)
         /\ BagOf(rows) = BagOf(Aggregated)
         /\ \A i \in 1 .. Len(rows) : file.lines[i] = rows[i].name \o TAB \o rows[i].created \o NL
         /\ \A i \in 1 .. (Len(rows) - 1) : InOrder(rows[i], rows[i + 1])
         /\ \A f \in Orderings(Len(Aggregated)) :
               Report([i \in 1 .. Len(Aggregated) |-> Aggregated[f[i]]]) = Bytes(file.lines)
    /\ (script = "list" /\ pc \in {"write", "done"}) =>
         /\ BagOf(rows) = BagOf(Aggregated)
         /\ \A i \in 1 .. (Len(rows) - 1) : InOrder(rows[i], rows[i + 1])
         /\ console = [i \in 1 .. Len(rows) |-> Printed(line_of(rows[i]))]
                      \o (IF pc = "done" /\ Truthy(args.output) THEN <<Wrote(Len(rows))>> ELSE <<>>)

C4_Witness ==
    /\ script = "extract"
    /\ pc = "done"
    /\ Len(Aggregated) = 2
    /\ Aggregated[1].created = Aggregated[2].created
    /\ StrLess(Aggregated[2].name, Aggregated[1].name)
    /\ Len(file.lines) = 2
    /\ file.lines[1] = line_of(Aggregated[2])
    /\ file.lines[2] = line_of(Aggregated[1])

\* ------------------------------------------------------------------- C5
RemoveAt(q, i) == SubSeq(q, 1, i - 1) \o SubSeq(q, i + 1, Len(q))

\* The item with its creation time replaced by a datetime at the cutoff.
WellFormed(k, snap) ==
    IF k \in {"ebs", "list_ebs"}
    THEN [snap EXCEPT !.StartTime = DT(cutoff_dt, 0)]
    ELSE [snap EXCEPT !.SnapshotCreateTime = DT(cutoff_dt, 0)]

\* C5: in each of the three enumerators an item whose creation time is absent
\* or no datetime is skipped without an error, the other items of the page
\* yield what they yield without it, and the records are one fewer than for
\* the page with that item well formed.
C5_MalformedSkipped ==
    (script = "enum" /\ EnumKind \in {"ebs", "rds_instance", "rds_cluster"}) =>
        /\ pc # "raised"
        /\ \A i \in 1 .. Len(emitted) :
             ~IsDatetime(created_field(EnumKind, EnumItemsIn[i])) =>
                 /\ emitted[i].o = "skip"
                 /\ pc = "done" =>
                      /\ rows = enum_items(EnumKind, RemoveAt(EnumItemsIn, i), cutoff_dt)
                      /\ Len(rows) + 1 =
                           Len(enum_items(EnumKind,
                                          [EnumItemsIn EXCEPT ![i] = WellFormed(EnumKind, @)],
                                          cutoff_dt))

C5_Witness ==
    /\ script = "enum"
    /\ pc = "done"
    /\ EnumKind = "ebs"
    /\ Len(emitted) = 2
    /\ EnumItemsIn[1].StartTime.t = "absent"
    /\ emitted[1].o = "skip"
    /\ emitted[2].o = "yield"
    /\ Len(rows) = 1

\* ------------------------------------------------------------------- C6
Resolved == script = "extract" /\ pc \in {"enumerate", "sort", "write", "done"}

\* C6 as stated: with an explicit region given, the regions queried are
\* exactly that region, whatever the other options are.
C6_ExplicitRegionAlways ==
    (Resolved /\ Truthy(args.region)) => regions = <<args.region.v>>

\* C6, amended: with an explicit region given and all-regions not
\* requested, the regions queried are exactly that region.
C6_ExplicitRegionUnlessAll ==
    (Resolved /\ Truthy(args.region) /\ ~args.all_regions) =>
        /\ regions = <<args.region.v>>
        /\ \A i \in 1 .. Len(calls) : calls[i].region = args.region.v
        /\ listing = "none"

C6_Witness ==
    /\ Resolved
    /\ pc = "done"
    /\ Truthy(args.region)
    /\ Truthy(session_region)
    /\ ~args.all_regions
    /\ args.service = "both"
    /\ Len(calls) = 3
    /\ regions = <<args.region.v>>

\* ------------------------------------------------------------------- C7
\* C7: when the listing of the regions fails the run exits with an error, no
\* enumerator has been called and the output file is as it was; a failed
\* enumerator call never makes the run exit.
C7_ListingFailureFatal ==
    /\ [](listing = "failed" =>
            /\ pc = "exit"
            /\ exit_msg = "Failed to list regions"
            /\ calls = <<>>
            /\ rows = <<>>
            /\ file \in {NoFile, OldFile})
    /\ [][listing' = "failed" => file' = file]_vars
    /\ [][(script = "extract" /\ Len(calls) > 0 /\ Len(calls') > 0
            /\ calls[Len(calls)].outcome = "running"
            /\ calls'[Len(calls)].outcome = "failed") => pc' # "exit"]_vars

C7_Witness ==
    /\ listing = "failed"
    /\ pc = "exit"
    /\ args.all_regions
    /\ file = OldFile
    /\ calls = <<>>

\* ------------------------------------------------------------------- C8
\* C8: no record of any enumerator, nor of list_ebs_snapshots, has an empty
\* name.
C8_NameNeverEmpty ==
    script = "enum" =>
        /\ \A i \in 1 .. Len(emitted) : emitted[i].o = "yield" => emitted[i].rec.name # <<>>
        /\ \A i \in 1 .. Len(rows) : rows[i].name # <<>>

C8_Witness ==
    /\ script = "enum"
    /\ EnumKind = "ebs"
    /\ Len(emitted) = 1
    /\ emitted[1].o = "yield"
    /\ NameTagOf(EnumItemsIn[1]) = <<>>
    /\ EnumItemsIn[1].Tags.t = "list"
    /\ EnumItemsIn[1].Tags.v # <<>>
    /\ EnumItemsIn[1].Description = Str(<<>>)
    /\ EnumItemsIn[1].SnapshotId = Str(<<>>)
    /\ emitted[1].rec.name = Unnamed

\* ------------------------------------------------------------------- C9
\* C9: the enumerator calls made so far are the first requested (kind, region)
\* pairs in order (regions as resolved, kinds block storage, instance,
\* cluster), each once; only the last of them can still be running; after the
\* loop they are all the requested pairs.
C9_CallOrder ==
    script = "extract" =>
        /\ Len(calls) <= Len(ExpectedPairs)
        /\ PairsCalled = SubSeq(ExpectedPairs, 1, Len(calls))
        /\ \A i, j \in 1 .. Len(calls) : PairsCalled[i] = PairsCalled[j] => i = j
        /\ \A i \in 1 .. (Len(calls) - 1) : calls[i].outcome \in {"ok", "failed"}
        /\ FanOutOver =>
             /\ PairsCalled = ExpectedPairs
             /\ \A i \in 1 .. Len(calls) : calls[i].outcome \in {"ok", "failed"}
        /\ pc = "enumerate" =>
             /\ Len(calls) > 0
             /\ calls[Len(calls)].outcome = "running"

C9_Witness ==
    /\ script = "extract"
    /\ pc = "done"
    /\ Len(regions) = 2
    /\ args.service = "both"
    /\ Len(calls) = 6
    /\ calls[3].kind = "rds_cluster"
    /\ calls[3].region = regions[1]
    /\ calls[4].kind = "ebs"
    /\ calls[4].region = regions[2]

\* ------------------------------------------------------------------- C10
IsPrefix(a, b) == Len(a) <= Len(b) /\ SubSeq(b, 1, Len(a)) = a

\* C10: during the fan-out the accumulated records only grow, and they are
\* all the records yielded so far, those of failed calls included; the
\* records a call yielded before it failed are in the file.
C10_AppendOnly ==
    /\ [](script = "extract" =>
            /\ pc \in {"enumerate", "sort"} => rows = Aggregated
            /\ pc \in {"write", "done"} => BagOf(rows) = BagOf(Aggregated)
            /\ pc = "done" =>
                 \A i \in FailedCalls : \A j \in 1 .. Len(calls[i].yielded) :
                     \E n \in 1 .. Len(file.lines) :
                         file.lines[n] = line_of(calls[i].yielded[j]))
    /\ [][(script = "extract" /\ pc = "enumerate") => IsPrefix(rows, rows')]_vars

C10_Witness ==
    /\ script = "extract"
    /\ pc = "done"
    /\ \E i \in FailedCalls :
         /\ Len(calls[i].yielded) = 1
         /\ \E n \in 1 .. Len(file.lines) : file.lines[n] = line_of(calls[i].yielded[1])
         /\ \E j \in 1 .. Len(calls) : j > i /\ calls[j].yielded # <<>>

====
